---- MODULE Spec2Model ----
(***************************************************************************)
(* CORS middleware of src/cors.py: CorsMiddleware.__init__ builds a policy *)
(* from keyword options, process_request gates an incoming request and     *)
(* process_response decorates an outgoing response.                        *)
(*                                                                         *)
(* Python strings are TLA+ strings, read as sequences of one-character     *)
(* strings (Head, Tail, SubSeq, \o and Len apply to them).                 *)
(***************************************************************************)
EXTENDS Integers, Sequences, FiniteSets, TLC

VARIABLES kwargs, self, pc, request, ret, response, app_response, log, served

vars == <<kwargs, self, pc, request, ret, response, app_response, log, served>>

(* Bounds of the exploration *)
MaxRequests == 2
MaxCalls == 3

-----------------------------------------------------------------------------
(* Python built-ins used by the module *)

None == [type |-> "NoneType"]

ascii_lowercase == "abcdefghijklmnopqrstuvwxyz"
ascii_uppercase == "ABCDEFGHIJKLMNOPQRSTUVWXYZ"

(* The whitespace of str.strip() and str.split(): space, \t, \n, \r, \f  *)
(* (0x0c) and the vertical tab (0x0b), written here as the character itself *)
isspace(c) == c \in {" ", "\t", "\n", "\r", "\f", ""}

upper_char(c) ==
  IF \E i \in 1..Len(ascii_lowercase) : SubSeq(ascii_lowercase, i, i) = c
  THEN LET i == CHOOSE j \in 1..Len(ascii_lowercase) : SubSeq(ascii_lowercase, j, j) = c
       IN SubSeq(ascii_uppercase, i, i)
  ELSE c

lower_char(c) ==
  IF \E i \in 1..Len(ascii_uppercase) : SubSeq(ascii_uppercase, i, i) = c
  THEN LET i == CHOOSE j \in 1..Len(ascii_uppercase) : SubSeq(ascii_uppercase, j, j) = c
       IN SubSeq(ascii_lowercase, i, i)
  ELSE c

RECURSIVE upper(_)
upper(s) == IF Len(s) = 0 THEN "" ELSE upper_char(Head(s)) \o upper(Tail(s))

RECURSIVE lower(_)
lower(s) == IF Len(s) = 0 THEN "" ELSE lower_char(Head(s)) \o lower(Tail(s))

RECURSIVE lstrip(_)
lstrip(s) == IF Len(s) > 0 /\ isspace(Head(s)) THEN lstrip(Tail(s)) ELSE s

RECURSIVE rstrip(_)
rstrip(s) ==
  IF Len(s) > 0 /\ isspace(SubSeq(s, Len(s), Len(s)))
  THEN rstrip(SubSeq(s, 1, Len(s) - 1))
  ELSE s

strip(s) == rstrip(lstrip(s))

(* str.split(): the words between runs of whitespace, no empty word *)
RECURSIVE split_scan(_, _, _)
split_scan(s, word, out) ==
  IF Len(s) = 0 THEN (IF Len(word) = 0 THEN out ELSE Append(out, word))
  ELSE IF isspace(Head(s))
       THEN split_scan(Tail(s), "", IF Len(word) = 0 THEN out ELSE Append(out, word))
       ELSE split_scan(Tail(s), word \o Head(s), out)

split(s) == split_scan(s, "", <<>>)

(* str.split(sep) for a one-character sep: every field, empty ones included *)
RECURSIVE split_sep_scan(_, _, _, _)
split_sep_scan(s, sep, field, out) ==
  IF Len(s) = 0 THEN Append(out, field)
  ELSE IF Head(s) = sep
       THEN split_sep_scan(Tail(s), sep, "", Append(out, field))
       ELSE split_sep_scan(Tail(s), sep, field \o Head(s), out)

split_sep(s, sep) == split_sep_scan(s, sep, "", <<>>)

(* sep.join(seq) *)
RECURSIVE join(_, _)
join(sep, seq) ==
  IF Len(seq) = 0 THEN ""
  ELSE IF Len(seq) = 1 THEN seq[1]
  ELSE seq[1] \o sep \o join(sep, Tail(seq))

(* set(seq) *)
set(seq) == {seq[i] : i \in 1..Len(seq)}

(* The orders in which iterating a set can yield its elements: Python fixes *)
(* none, it follows the hashes of the elements.                             *)
iter_orders(S) ==
  {f \in [1..Cardinality(S) -> S] : \A i, j \in 1..Cardinality(S) : i # j => f[i] # f[j]}

-----------------------------------------------------------------------------
(* Module constants *)

DEFAULT_CONFIGURATION ==
  [allow_origins     |-> "*",
   allow_methods     |-> "GET, POST, PUT, DELETE, OPTIONS",
   allow_headers     |-> "Origin, Content-type, Accept, X-Auth-Token",
   expose_headers    |-> "etag, x-timestamp, x-trans-id, vary",
   allow_credentials |-> "false",
   hijack_options    |-> "true",
   max_age           |-> "3600"]

TRUE_STRINGS == {"1", "t", "true", "on", "y", "yes"}
FALSE_STRINGS == {"0", "f", "false", "off", "n", "no"}

(* isinstance(subject, basestring): of the values a subject can be here (a *)
(* string, a boolean, an integer, None) TLC prints only a string quoted.   *)
isinstance_basestring(subject) == Head(ToString(subject)) = "\""

(* str(subject) of a subject that is no string: True, False, None or the   *)
(* digits of an integer.                                                   *)
str(subject) ==
  LET printed == ToString(subject)
  IN IF printed = ToString(TRUE) THEN "True"
     ELSE IF printed = ToString(FALSE) THEN "False"
     ELSE IF printed = ToString(None) THEN "None"
     ELSE printed

(* bool_from_string(subject, strict): a record holding the value returned, *)
(* or the ValueError raised in strict mode.                                *)
bool_from_string(subject, strict) ==
  LET lowered == lower(strip(IF isinstance_basestring(subject) THEN subject ELSE str(subject)))
  IN IF lowered \in TRUE_STRINGS THEN [raised |-> FALSE, value |-> TRUE]
     ELSE IF lowered \in FALSE_STRINGS THEN [raised |-> FALSE, value |-> FALSE]
     ELSE IF strict THEN [raised |-> TRUE, value |-> FALSE]
     ELSE [raised |-> FALSE, value |-> FALSE]

-----------------------------------------------------------------------------
(* webob objects, as far as the middleware reads and writes them *)

(* A request: its headers (a mapping that may or may not hold "Origin") and *)
(* its method.                                                              *)
Request(headers, method) == [type |-> "Request", headers |-> headers, method |-> method]

NoHeaders == [k \in {} |-> ""]
OriginHeader(origin) == [k \in {"Origin"} |-> origin]

(* A response: status, the request it answers (None when not known) and its *)
(* headers, a mapping from the lower-cased header name to the values held   *)
(* under that name, in order.                                               *)
Response ==
  [type    |-> "Response",
   status  |-> 200,
   request |-> None,
   headers |-> ("content-type" :> <<"text/html; charset=UTF-8">>)
               @@ ("content-length" :> <<"0">>)]

HTTPUnauthorized ==
  [type    |-> "HTTPUnauthorized",
   status  |-> 401,
   request |-> None,
   headers |-> ("content-type" :> <<"text/html; charset=UTF-8">>)]

(* response.headers.update(d): every key of d is set, replacing the values *)
(* held under that name; the other names are kept.                         *)
headers_update(headers, d) ==
  [k \in DOMAIN headers \cup DOMAIN d |-> IF k \in DOMAIN d THEN <<d[k]>> ELSE headers[k]]

-----------------------------------------------------------------------------
(* CorsMiddleware *)

CORS_HEADER_NAMES ==
  {"access-control-allow-origin", "access-control-max-age",
   "access-control-allow-methods", "access-control-allow-headers",
   "access-control-expose-headers", "access-control-allow-credentials"}

(* conf = DEFAULT_CONFIGURATION.copy(); conf.update(kwargs) *)
conf_update(kw) ==
  [k \in DOMAIN DEFAULT_CONFIGURATION \cup DOMAIN kw |->
     IF k \in DOMAIN kw THEN kw[k] ELSE DEFAULT_CONFIGURATION[k]]

allowed_origins_of(conf) == set(split(conf["allow_origins"]))

allowed_methods_of(conf) ==
  {upper(strip(method)) : method \in set(split_sep(conf["allow_methods"], ","))}

(* The headers built from conf, the allowed origins being iterated in order *)
cors_headers_of(conf, order) ==
  ("access-control-allow-origin" :> join(" ", order))
  @@ ("access-control-max-age" :> conf["max_age"])
  @@ ("access-control-allow-methods" :> conf["allow_methods"])
  @@ ("access-control-allow-headers" :> conf["allow_headers"])
  @@ ("access-control-expose-headers" :> conf["expose_headers"])
  @@ ("access-control-allow-credentials" :> conf["allow_credentials"])

(* The middleware objects __init__ can construct from kw: one for each      *)
(* order in which ' '.join iterates the set of allowed origins.             *)
__init__(kw) ==
  LET conf == conf_update(kw)
  IN {[allowed_origins |-> allowed_origins_of(conf),
       allowed_methods |-> allowed_methods_of(conf),
       hijack_options  |-> bool_from_string(conf["hijack_options"], FALSE).value,
       cors_headers    |-> cors_headers_of(conf, order)]
      : order \in iter_orders(allowed_origins_of(conf))}

(* Variants of process_response, each with one plausible slip *)

(* reads the request argument where the code reads response.request *)
process_response_reads_argument(slf, req, resp) ==
  [self    |-> slf,
   request |-> req,
   ret     |-> IF req = None \/ "Origin" \in DOMAIN req.headers
               THEN [resp EXCEPT !.headers = headers_update(@, slf.cors_headers)]
               ELSE resp,
   log     |-> <<"process_response">>]

(* adds each value after those already held under the name *)
process_response_appends(slf, req, resp) ==
  [self    |-> slf,
   request |-> req,
   ret     |-> IF resp.request = None \/ "Origin" \in DOMAIN resp.request.headers
               THEN [resp EXCEPT !.headers =
                       [k \in DOMAIN @ \cup DOMAIN slf.cors_headers |->
                          IF k \notin DOMAIN slf.cors_headers THEN @[k]
                          ELSE IF k \in DOMAIN @ THEN Append(@[k], slf.cors_headers[k])
                          ELSE <<slf.cors_headers[k]>>]]
               ELSE resp,
   log     |-> <<"process_response">>]

(* updates the middleware's own headers from the response's *)
process_response_updates_policy(slf, req, resp) ==
  [self    |-> IF resp.request = None \/ "Origin" \in DOMAIN resp.request.headers
               THEN [slf EXCEPT !.cors_headers =
                       [k \in DOMAIN @ \cup DOMAIN resp.headers |->
                          IF k \in DOMAIN resp.headers THEN resp.headers[k][1] ELSE @[k]]]
               ELSE slf,
   request |-> req,
   ret     |-> resp,
   log     |-> <<"process_response">>]

(* A call's outcome: the middleware and the request after the call, the     *)
(* value returned and the methods of the middleware that ran, in order.     *)
process_response(slf, req, resp) ==
  [self    |-> slf,
   request |-> req,
   ret     |-> IF resp.request = None \/ "Origin" \in DOMAIN resp.request.headers
               THEN [resp EXCEPT !.headers = headers_update(@, slf.cors_headers)]
               ELSE resp,
   log     |-> <<"process_response">>]

(* Variants of process_request, each with one plausible slip *)

(* the method is checked whether or not the request has an Origin *)
process_request_checks_method_first(slf, req) ==
  LET passed == [self |-> slf, request |-> req, ret |-> None, log |-> <<"process_request">>]
      refused == [passed EXCEPT !.ret = HTTPUnauthorized]
  IN IF req.method \notin slf.allowed_methods
     THEN refused
     ELSE IF "Origin" \in DOMAIN req.headers /\ Len(req.headers["Origin"]) > 0
     THEN LET origin == req.headers["Origin"]
          IN IF origin \notin slf.allowed_origins /\ "*" \notin slf.allowed_origins
             THEN refused
             ELSE IF slf.hijack_options /\ req.method = "OPTIONS"
             THEN LET inner == process_response(slf, req, Response)
                  IN [inner EXCEPT !.log = <<"process_request">> \o @]
             ELSE passed
     ELSE passed

(* OPTIONS is answered whatever hijack_options says *)
process_request_always_hijacks(slf, req) ==
  LET passed == [self |-> slf, request |-> req, ret |-> None, log |-> <<"process_request">>]
      refused == [passed EXCEPT !.ret = HTTPUnauthorized]
  IN IF "Origin" \in DOMAIN req.headers /\ Len(req.headers["Origin"]) > 0
     THEN LET origin == req.headers["Origin"]
          IN IF origin \notin slf.allowed_origins /\ "*" \notin slf.allowed_origins
             THEN refused
             ELSE IF req.method \notin slf.allowed_methods
             THEN refused
             ELSE IF req.method = "OPTIONS"
             THEN LET inner == process_response(slf, req, Response)
                  IN [inner EXCEPT !.log = <<"process_request">> \o @]
             ELSE passed
     ELSE passed

process_request(slf, req) ==
  LET passed == [self |-> slf, request |-> req, ret |-> None, log |-> <<"process_request">>]
      refused == [passed EXCEPT !.ret = HTTPUnauthorized]
  IN IF "Origin" \in DOMAIN req.headers /\ Len(req.headers["Origin"]) > 0
     THEN LET origin == req.headers["Origin"]
          IN IF origin \notin slf.allowed_origins /\ "*" \notin slf.allowed_origins
             THEN refused
             ELSE IF req.method \notin slf.allowed_methods
             THEN refused
             ELSE IF slf.hijack_options /\ req.method = "OPTIONS"
             THEN LET inner == process_response(slf, req, Response)
                  IN [inner EXCEPT !.log = <<"process_request">> \o @]
             ELSE passed
     ELSE passed

-----------------------------------------------------------------------------
(* Inputs *)

AllowOriginsInputs ==
  {"*", "http://a.example http://b.example", "http://a.example", ""}

AllowMethodsInputs == {"GET,POST", "get", "GET, OPTIONS", "\foptions ,Get"}

HijackOptionsInputs == {"false", " Yes", "maybe"}

OptionInputs ==
  [allow_origins  |-> AllowOriginsInputs,
   allow_methods  |-> AllowMethodsInputs,
   hijack_options |-> HijackOptionsInputs]

(* The keyword arguments given to __init__: any of the three options, each  *)
(* present or left to its default.                                          *)
KwargsInputs ==
  UNION {{kw \in [D -> UNION {OptionInputs[k] : k \in D}] : \A k \in D : kw[k] \in OptionInputs[k]}
         : D \in SUBSET DOMAIN OptionInputs}

OriginInputs == {"", "http://a.example", "http://evil.example"}

MethodInputs == {"GET", "get", "OPTIONS", "PATCH"}

RequestInputs ==
  {Request(headers, method) :
     headers \in {NoHeaders} \cup {OriginHeader(o) : o \in OriginInputs},
     method \in MethodInputs}

(* Headers the application downstream gives its response: none of the CORS *)
(* names, one of them, or one of them twice.                               *)
AppHeadersInputs ==
  {("content-type" :> <<"application/json">>),
   ("content-type" :> <<"application/json">>)
     @@ (lower("Access-Control-Allow-Origin") :> <<"http://app.example">>),
   ("x-trace" :> <<"1">>)
     @@ ("access-control-max-age" :> <<"1", "2">>)}

(* The response the application gives, its request known or not *)
AppResponse(req, headers) ==
  [type |-> "Response", status |-> 200, request |-> req, headers |-> headers]

-----------------------------------------------------------------------------
(* The state machine *)

Init ==
  /\ kwargs \in KwargsInputs
  /\ self \in __init__(kwargs)
  /\ pc = "idle"
  /\ request = None
  /\ ret = None
  /\ response = None
  /\ app_response = None
  /\ log = <<>>
  /\ served = 0

(* The pipeline of the middleware base class: process_request, then the    *)
(* application unless process_request answered, then process_response.     *)
Receive(req) ==
  /\ pc = "idle"
  /\ served < MaxRequests
  /\ pc' = "gate"
  /\ request' = req
  /\ ret' = None
  /\ response' = None
  /\ app_response' = None
  /\ log' = <<>>
  /\ UNCHANGED <<kwargs, self, served>>

Gate ==
  /\ pc = "gate"
  /\ LET out == process_request(self, request)
     IN /\ self' = out.self
        /\ request' = out.request
        /\ ret' = out.ret
        /\ log' = out.log
        /\ response' = out.ret
        /\ pc' = IF out.ret = None THEN "downstream" ELSE "done"
  /\ UNCHANGED <<kwargs, app_response, served>>

Downstream(req, headers) ==
  /\ pc = "downstream"
  /\ response' = AppResponse(req, headers)
  /\ app_response' = response'
  /\ log' = Append(log, "application")
  /\ pc' = "decorate"
  /\ UNCHANGED <<kwargs, self, request, ret, served>>

Decorate ==
  /\ pc = "decorate"
  /\ LET out == process_response(self, request, response)
     IN /\ self' = out.self
        /\ request' = out.request
        /\ response' = out.ret
        /\ log' = log \o out.log
  /\ pc' = "done"
  /\ UNCHANGED <<kwargs, ret, app_response, served>>

Finish ==
  /\ pc = "done"
  /\ pc' = "idle"
  /\ served' = served + 1
  /\ UNCHANGED <<kwargs, self, request, ret, response, app_response, log>>

Next ==
  \/ \E req \in RequestInputs : Receive(req)
  \/ Gate
  \/ \E req \in {None, request}, headers \in AppHeadersInputs : Downstream(req, headers)
  \/ Decorate
  \/ Finish

Spec == Init /\ [][Next]_vars

(* Direct calls: any request, any response, the two methods called in any  *)
(* order and any number of times.                                          *)
NewRequest(req) ==
  /\ request' = req
  /\ ret' = None
  /\ response' = None
  /\ app_response' = None
  /\ log' = <<>>
  /\ UNCHANGED <<kwargs, self, pc, served>>

NewResponse(req, headers) ==
  /\ request # None
  /\ response' = AppResponse(req, headers)
  /\ app_response' = response'
  /\ log' = <<>>
  /\ UNCHANGED <<kwargs, self, pc, request, ret, served>>

CallProcessRequest ==
  /\ request # None
  /\ Len(log) < MaxCalls
  /\ LET out == process_request(self, request)
     IN /\ self' = out.self
        /\ request' = out.request
        /\ ret' = out.ret
        /\ log' = log \o out.log
        /\ response' = IF out.ret = None THEN response ELSE out.ret
        /\ app_response' = IF out.ret = None THEN app_response ELSE None
  /\ UNCHANGED <<kwargs, pc, served>>

CallProcessResponse ==
  /\ response # None
  /\ Len(log) < MaxCalls
  /\ LET out == process_response(self, request, response)
     IN /\ self' = out.self
        /\ request' = out.request
        /\ response' = out.ret
        /\ log' = log \o out.log
  /\ UNCHANGED <<kwargs, pc, ret, app_response, served>>

NextCalls ==
  \/ \E req \in RequestInputs : NewRequest(req)
  \/ \E req \in {None, request}, headers \in AppHeadersInputs : NewResponse(req, headers)
  \/ CallProcessRequest
  \/ CallProcessResponse

SpecCalls == Init /\ [][NextCalls]_vars

-----------------------------------------------------------------------------
(* Vocabulary of the properties *)

HasOrigin(req) == "Origin" \in DOMAIN req.headers

OriginAllowed(slf, req) ==
  HasOrigin(req)
  /\ (req.headers["Origin"] \in slf.allowed_origins \/ "*" \in slf.allowed_origins)

(* process_request has returned for the request in the pipeline *)
Gated == pc \in {"downstream", "decorate", "done"}

Rejected == ret.type = "HTTPUnauthorized" /\ ret.status = 401

(* the response is what process_response last returned *)
Decorated == response # None /\ Len(log) > 0 /\ log[Len(log)] = "process_response"

(* process_response's rule for a response *)
ShouldInject(resp) == resp.request = None \/ HasOrigin(resp.request)

BearsCorsHeaders(slf, resp) ==
  \A name \in CORS_HEADER_NAMES :
    name \in DOMAIN resp.headers /\ resp.headers[name] = <<slf.cors_headers[name]>>

Count(seq, x) == Cardinality({i \in 1..Len(seq) : seq[i] = x})

-----------------------------------------------------------------------------
(* C1: a request whose Origin header (any string, the empty one included) *)
(* is no member of allowed_origins, '*' not being a member either, is      *)
(* rejected with 401, whatever its method and hijack_options.              *)
C1_DisallowedOriginRejected ==
  (Gated /\ HasOrigin(request)
     /\ request.headers["Origin"] \notin self.allowed_origins
     /\ "*" \notin self.allowed_origins)
  => Rejected

(* C2: a request without an Origin header passes (process_request returns *)
(* None), whatever the policy and the method.                             *)
C2_NoOriginPasses ==
  (Gated /\ ~HasOrigin(request)) => ret = None

C2_Witness ==
  /\ pc = "downstream"
  /\ ~HasOrigin(request)
  /\ request.method = "OPTIONS"
  /\ request.method \notin self.allowed_methods
  /\ self.hijack_options
  /\ ret = None

(* C3: a request whose Origin is allowed and whose method, as received, is *)
(* no member of allowed_methods is rejected with 401.                      *)
C3_DisallowedMethodRejected ==
  (Gated /\ OriginAllowed(self, request) /\ request.method \notin self.allowed_methods)
  => Rejected

(* C4: a request with an allowed Origin and method OPTIONS, OPTIONS being *)
(* allowed and hijack_options true, is answered with a fresh empty 200    *)
(* response, bound to no request, that went through process_response and  *)
(* bears the six CORS headers of the policy.                              *)
C4_PreflightAnswered ==
  (Gated /\ OriginAllowed(self, request) /\ request.method = "OPTIONS"
     /\ "OPTIONS" \in self.allowed_methods /\ self.hijack_options)
  => /\ ret.type = "Response"
     /\ ret.status = 200
     /\ ret.request = None
     /\ BearsCorsHeaders(self, ret)
     /\ log = <<"process_request", "process_response">>
     /\ \A name \in DOMAIN Response.headers : ret.headers[name] = Response.headers[name]

(* C5: process_response sets the six CORS headers exactly when the         *)
(* response's request is unknown or has an Origin header; otherwise the    *)
(* headers are as the application left them. Either way the headers of     *)
(* other names, the status and the request of the response are untouched.  *)
C5_InjectsIffCorsRequest ==
  (pc = "done" /\ app_response # None)
  => /\ Decorated
     /\ ShouldInject(app_response) => BearsCorsHeaders(self, response)
     /\ ~ShouldInject(app_response) => response.headers = app_response.headers
     /\ DOMAIN response.headers \ CORS_HEADER_NAMES
          = DOMAIN app_response.headers \ CORS_HEADER_NAMES
     /\ \A name \in DOMAIN app_response.headers \ CORS_HEADER_NAMES :
          response.headers[name] = app_response.headers[name]
     /\ [response EXCEPT !.headers = app_response.headers] = app_response

C5_Witness ==
  /\ pc = "done"
  /\ app_response # None
  /\ app_response.request # None
  /\ ~HasOrigin(app_response.request)
  /\ "access-control-allow-origin" \in DOMAIN app_response.headers
  /\ response.headers = app_response.headers

(* C6: process_response applied to a response it already returned leaves   *)
(* it as it is, and where it injects, each of the six names holds exactly   *)
(* one value, the policy's, whatever the application had put there.         *)
C6_Idempotent ==
  Decorated
  => /\ process_response(self, request, response).ret = response
     /\ ShouldInject(response) => BearsCorsHeaders(self, response)

C6_Witness ==
  /\ Len(log) >= 2
  /\ log[Len(log)] = "process_response"
  /\ log[Len(log) - 1] = "process_response"
  /\ app_response # None
  /\ "access-control-max-age" \in DOMAIN app_response.headers
  /\ Len(app_response.headers["access-control-max-age"]) = 2
  /\ response.headers["access-control-max-age"] = <<self.cors_headers["access-control-max-age"]>>

(* C7: access-control-allow-origin is the configured origins, in the order *)
(* configured, joined with single spaces; for allow_origins                *)
(* 'http://a.example http://b.example', allow_methods 'GET,POST' and a GET *)
(* from http://a.example the request passes and the response carries       *)
(* exactly 'http://a.example http://b.example'.                            *)
C7_AllowOriginAsConfigured ==
  /\ (pc = "done" /\ app_response # None /\ ShouldInject(app_response))
     => response.headers["access-control-allow-origin"]
          = <<join(" ", split(conf_update(kwargs)["allow_origins"]))>>
  /\ (pc = "done"
        /\ kwargs = [allow_origins |-> "http://a.example http://b.example",
                     allow_methods |-> "GET,POST"]
        /\ request = Request(OriginHeader("http://a.example"), "GET"))
     => /\ ret = None
        /\ response.headers["access-control-allow-origin"]
             = <<"http://a.example http://b.example">>

(* C8: with hijack_options false, an OPTIONS request with an allowed Origin *)
(* and OPTIONS allowed passes to the application, and the response of the   *)
(* application is given the six CORS headers.                               *)
C8_UnhijackedPreflightDecorated ==
  (request # None /\ ~self.hijack_options /\ OriginAllowed(self, request)
     /\ request.method = "OPTIONS" /\ "OPTIONS" \in self.allowed_methods)
  => /\ Gated => ret = None
     /\ pc = "done" => /\ log = <<"process_request", "application", "process_response">>
                       /\ BearsCorsHeaders(self, response)

C8_Witness ==
  /\ pc = "done"
  /\ ~self.hijack_options
  /\ request.method = "OPTIONS"
  /\ "OPTIONS" \in self.allowed_methods
  /\ HasOrigin(request)
  /\ request.headers["Origin"] \in self.allowed_origins
  /\ app_response.request = request
  /\ "access-control-allow-origin" \in DOMAIN app_response.headers
  /\ BearsCorsHeaders(self, response)

(* C9: no call of process_request or process_response changes the policy   *)
(* or the request; process_response changes nothing of its response but    *)
(* the headers.                                                            *)
C9_PolicyImmutable ==
  [][/\ self' = self
     /\ Len(log') > Len(log) => request' = request
     /\ (Len(log') = Len(log) + 1 /\ log'[Len(log')] = "process_response")
        => [response' EXCEPT !.headers = response.headers] = response
     /\ Len(log') = Len(log) + 2
        => [ret' EXCEPT !.headers = Response.headers] = Response]_vars

C9_Witness ==
  /\ Len(log) >= 3
  /\ Count(log, "process_request") >= 1
  /\ log[Len(log)] = "process_response"
  /\ response # None
  /\ app_response # None
  /\ response.headers # app_response.headers
  /\ self \in __init__(kwargs)

(* C10: the application runs exactly when process_request passed; a        *)
(* rejected request gets a 401 that never goes through process_response    *)
(* and has no CORS header; a hijacked preflight gets a response decorated  *)
(* exactly once; so a request that reaches the application with an Origin  *)
(* header has an allowed origin and an allowed method.                     *)
C10_PipelineGates ==
  /\ pc \in {"decorate", "done"} => (Count(log, "application") = 1 <=> ret = None)
  /\ pc \in {"gate", "downstream"} => Count(log, "application") = 0
  /\ (pc = "done" /\ ret # None /\ Rejected)
     => /\ Count(log, "process_response") = 0
        /\ DOMAIN response.headers \cap CORS_HEADER_NAMES = {}
  /\ (pc = "done" /\ ret # None /\ ~Rejected)
     => Count(log, "process_response") = 1
  /\ (Count(log, "application") = 1 /\ HasOrigin(request))
     => /\ OriginAllowed(self, request)
        /\ request.method \in self.allowed_methods

====
